---- MODULE Spec2Model ----
(***************************************************************************)
(* Model of build_ovp_curve.py: the interactive OVP curve generator.       *)
(*                                                                         *)
(* Number representation.  The program works on floats; the model works on *)
(* exact scaled integers, so every result is the real-number value of the  *)
(* expression the code evaluates.                                          *)
(*   - an x value is a pair <<c, f>> standing for  c * (1/2) + f * 5e-13:  *)
(*     c counts halves, f counts half-tolerances (the band tolerance 1e-12 *)
(*     of line 106 is <<0, 2>>).  f stays so small that the numeric order  *)
(*     is the lexicographic order of the pairs.                            *)
(*   - a y value is an integer counting eighths (0.125), which floats hold *)
(*     exactly, so that y*100 has exact halves for the label rounding.     *)
(*   - catmull_rom_to_bezier returns its points multiplied by 6 (the code  *)
(*     divides by 6.0), and sample_bezier returns its samples multiplied   *)
(*     by (n_pts-1)^3 (t = j/(n_pts-1)); a dense sample is thus in units   *)
(*     of 1/Scale(n_pts) of the input unit.                                *)
(* Sequences are 1-based: Python's index r is position r+1.                *)
(***************************************************************************)
EXTENDS Integers, Sequences, FiniteSets, TLC

VARIABLES pc, mids, n_per_seg, beziers, idx, xs_all, ys_all, cols, labels, k, sheet

vars == <<pc, mids, n_per_seg, beziers, idx, xs_all, ys_all, cols, labels, k, sheet>>

\* ---------------------------------------------------------------- bounds

\* The largest points-per-segment value the user enters.
MaxDensity == 5

\* main reads exactly five points (range(5), line 64).
NumPoints == 5

\* ---------------------------------------------------------------- numbers

NAdd(a, b) == <<a[1] + b[1], a[2] + b[2]>>
NSub(a, b) == <<a[1] - b[1], a[2] - b[2]>>
NMul(m, a) == <<m * a[1], m * a[2]>>
NLe(a, b) == a[1] < b[1] \/ (a[1] = b[1] /\ a[2] <= b[2])
NLt(a, b) == a[1] < b[1] \/ (a[1] = b[1] /\ a[2] < b[2])
NAbs(a) == IF NLe(<<0, 0>>, a) THEN a ELSE <<-a[1], -a[2]>>

Pt(x, y) == [x |-> x, y |-> y]

\* The lines the user can type at a "Point i (x y):" prompt that parse:
\* 2.0, 3 - 5e-13, 4.0 (twice, with two y), 5.0, 5.5, 9.5.
PointInputs ==
    { Pt(<<4, 0>>, 1), Pt(<<6, -1>>, 3), Pt(<<8, 0>>, 3), Pt(<<8, 0>>, 5),
      Pt(<<10, 0>>, 4), Pt(<<11, 0>>, 5), Pt(<<19, 0>>, 7) }

\* The integers the user can type at the "Points per segment" prompt.
DensityInputs == 2..MaxDensity

\* ---------------------------------------------------------------- spline helpers

ValueError == "ValueError: Need at least two points"

\* C1 = Pt(P1.x + (P2.x - P0.x)/6.0, P1.y + (P2.y - P0.y)/6.0), times 6.
BezierC1(P0, P1, P2) ==
    Pt(NAdd(NMul(6, P1.x), NSub(P2.x, P0.x)), 6 * P1.y + (P2.y - P0.y))

\* The slip "P2 + (P3 - P1)/6": the second control point lands beyond P2.
BezierC2_added(P1, P2, P3) ==
    Pt(NAdd(NMul(6, P2.x), NSub(P3.x, P1.x)), 6 * P2.y + (P3.y - P1.y))

\* C2 = Pt(P2.x - (P3.x - P1.x)/6.0, P2.y - (P3.y - P1.y)/6.0), times 6.
BezierC2(P1, P2, P3) ==
    Pt(NSub(NMul(6, P2.x), NSub(P3.x, P1.x)), 6 * P2.y - (P3.y - P1.y))

\* Returns the segments (P1, C1, C2, P2), every coordinate multiplied by 6.
catmull_rom_to_bezier(points) ==
    LET n == Len(points)
        ext == [j \in 1..(n + 2) |->
                  IF j = 1
                  THEN Pt(NSub(points[1].x, NSub(points[2].x, points[1].x)),
                          points[1].y - (points[2].y - points[1].y))
                  ELSE IF j = n + 2
                  THEN Pt(NAdd(points[n].x, NSub(points[n].x, points[n - 1].x)),
                          points[n].y + (points[n].y - points[n - 1].y))
                  ELSE points[j - 1]]
    IN  IF n < 2 THEN ValueError
        ELSE [i \in 1..(n - 1) |->
                LET P0 == ext[i]
                    P1 == ext[i + 1]
                    P2 == ext[i + 2]
                    P3 == ext[i + 3]
                    C1 == BezierC1(P0, P1, P2)
                    C2 == BezierC2(P1, P2, P3)
                IN  <<Pt(NMul(6, P1.x), 6 * P1.y), C1, C2, Pt(NMul(6, P2.x), 6 * P2.y)>>]

\* np.linspace(0.0, 1.0, n_pts): the numerators j of t = j/(n_pts-1).
linspace(n_pts) == [j \in 1..n_pts |-> j - 1]

\* Samples, every coordinate multiplied by (n_pts-1)^3.
sample_bezier(P1, C1, C2, P2, n_pts) ==
    LET m == n_pts - 1
        t == linspace(n_pts)
        b0(j) == (m - t[j]) * (m - t[j]) * (m - t[j])
        b1(j) == 3 * (m - t[j]) * (m - t[j]) * t[j]
        b2(j) == 3 * (m - t[j]) * t[j] * t[j]
        b3(j) == t[j] * t[j] * t[j]
    IN  [xs |-> [j \in 1..n_pts |->
                   NAdd(NAdd(NMul(b0(j), P1.x), NMul(b1(j), C1.x)),
                        NAdd(NMul(b2(j), C2.x), NMul(b3(j), P2.x)))],
         ys |-> [j \in 1..n_pts |->
                   b0(j) * P1.y + b1(j) * C1.y + b2(j) * C2.y + b3(j) * P2.y]]

\* Dense units per input unit for a run sampled at n_pts points per segment.
Scale(n_pts) == 6 * (n_pts - 1) * (n_pts - 1) * (n_pts - 1)

\* ---------------------------------------------------------------- main: input

Init ==
    /\ pc = "points"
    /\ mids = <<>>
    /\ n_per_seg = 0
    /\ beziers = <<>>
    /\ idx = 0
    /\ xs_all = <<>>
    /\ ys_all = <<>>
    /\ cols = <<>>
    /\ labels = <<>>
    /\ k = 0
    /\ sheet = <<>>

\* A line that parses as two floats: the point is appended.
ReadPoint(p) ==
    /\ pc = "points"
    /\ Len(mids) < NumPoints
    /\ mids' = Append(mids, p)
    /\ pc' = IF Len(mids) + 1 = NumPoints THEN "sort" ELSE "points"
    /\ UNCHANGED <<n_per_seg, beziers, idx, xs_all, ys_all, cols, labels, k, sheet>>

\* A line that does not parse: a message is printed and the prompt repeats.
BadPointLine ==
    /\ pc = "points"
    /\ UNCHANGED vars

RECURSIVE InsertByX(_, _)
InsertByX(s, p) ==
    IF s = <<>> THEN <<p>>
    ELSE IF NLe(Head(s).x, p.x) THEN <<Head(s)>> \o InsertByX(Tail(s), p)
    ELSE <<p>> \o s

\* list.sort(key=lambda p: p.x): a stable sort on x.
RECURSIVE SortByX(_)
SortByX(s) ==
    IF s = <<>> THEN <<>>
    ELSE InsertByX(SortByX(SubSeq(s, 1, Len(s) - 1)), s[Len(s)])

SortMids ==
    /\ pc = "sort"
    /\ mids' = SortByX(mids)
    /\ pc' = "density"
    /\ UNCHANGED <<n_per_seg, beziers, idx, xs_all, ys_all, cols, labels, k, sheet>>

\* The slip of a missing "continue": the message is printed and the value kept.
AcceptDensity_nocontinue(d) == TRUE

\* The value is kept when it is not below 4 (line 78).
AcceptDensity(d) == ~(d < 4)

\* An integer line: n_per_seg is assigned, then checked.
ReadDensity(d) ==
    /\ pc = "density"
    /\ n_per_seg' = d
    /\ pc' = IF AcceptDensity(d) THEN "curve" ELSE "density"
    /\ UNCHANGED <<mids, beziers, idx, xs_all, ys_all, cols, labels, k, sheet>>

\* A line that is no integer: a message is printed and the prompt repeats.
BadDensityLine ==
    /\ pc = "density"
    /\ UNCHANGED vars

\* ---------------------------------------------------------------- main: curve

\* The slip of no trimming at all: every join point is counted twice.
JoinTrim_keep(i, v) == v

\* The slip "xs[:-1]": the later segment loses its end instead of its start.
JoinTrim_end(i, v) == IF i > 0 THEN SubSeq(v, 1, Len(v) - 1) ELSE v

\* "if idx > 0: xs, ys = xs[1:], ys[1:]": the join point is not counted twice.
JoinTrim(i, v) == IF i > 0 THEN Tail(v) ELSE v

\* One pass of the loop of lines 87-92 over segment number i (0-based).
SegmentSamples(segs, i, n_pts) ==
    LET seg == segs[i + 1]
        s == sample_bezier(seg[1], seg[2], seg[3], seg[4], n_pts)
    IN  [xs |-> JoinTrim(i, s.xs), ys |-> JoinTrim(i, s.ys)]

BuildBeziers ==
    /\ pc = "curve"
    /\ IF Len(mids) < 2
       THEN /\ pc' = "crashed"
            /\ UNCHANGED <<beziers, idx>>
       ELSE /\ beziers' = catmull_rom_to_bezier(mids)
            /\ idx' = 0
            /\ pc' = "sample"
    /\ UNCHANGED <<mids, n_per_seg, xs_all, ys_all, cols, labels, k, sheet>>

SampleSegment ==
    /\ pc = "sample"
    /\ idx < Len(beziers)
    /\ LET s == SegmentSamples(beziers, idx, n_per_seg)
       IN  /\ xs_all' = xs_all \o s.xs
           /\ ys_all' = ys_all \o s.ys
    /\ idx' = idx + 1
    /\ pc' = IF idx + 1 = Len(beziers) THEN "bands" ELSE "sample"
    /\ UNCHANGED <<mids, n_per_seg, beziers, cols, labels, k, sheet>>

\* ---------------------------------------------------------------- main: bands

\* Band edges in halves: (2.0, 3.0), (3.0, 4.0), (4.0, 5.0), (5.0, 6.0), (6.0, 7.0).
bands ==
    << [lo |-> <<4, 0>>,  hi |-> <<6, 0>>,  label |-> "2-3"],
       [lo |-> <<6, 0>>,  hi |-> <<8, 0>>,  label |-> "3-4"],
       [lo |-> <<8, 0>>,  hi |-> <<10, 0>>, label |-> "4-5"],
       [lo |-> <<10, 0>>, hi |-> <<12, 0>>, label |-> "5-6"],
       [lo |-> <<12, 0>>, hi |-> <<14, 0>>, label |-> "6-7"] >>

\* 1e-12, in half-tolerances.
Tolerance == <<0, 2>>

\* The empty cell (np.nan) and the empty label.
NaN == <<>>
NoLabel == <<>>

\* The slip of closing every band at its upper edge.
BandUpper_closed(i) == bands[i].hi

\* "hi if i == len(bands)-1 else hi - 1e-12", for the band at position i.
BandUpper(i) ==
    IF i = Len(bands) THEN bands[i].hi ELSE NSub(bands[i].hi, Tolerance)

\* mask = (df["x"] >= lo) & (df["x"] <= upper), on a dense x in 1/K units.
Mask(i, x, K) ==
    /\ NLe(NMul(K, bands[i].lo), x)
    /\ NLe(x, NMul(K, BandUpper(i)))

\* np.where(mask, df["y"], np.nan) for the band at position i.
BandColumn(i, xs, ys, K) ==
    [r \in 1..Len(xs) |-> IF Mask(i, xs[r], K) THEN <<ys[r]>> ELSE NaN]

AddBandColumn ==
    /\ pc = "bands"
    /\ Len(cols) < Len(bands)
    /\ cols' = Append(cols, BandColumn(Len(cols) + 1, xs_all, ys_all, Scale(n_per_seg)))
    /\ IF Len(cols) + 1 = Len(bands)
       THEN /\ labels' = [r \in 1..Len(xs_all) |-> NoLabel]
            /\ k' = 0
            /\ pc' = "labels"
       ELSE UNCHANGED <<labels, k, pc>>
    /\ UNCHANGED <<mids, n_per_seg, beziers, idx, xs_all, ys_all, sheet>>

\* ---------------------------------------------------------------- main: labels

\* Series.idxmin(): the first position holding the minimum.
RECURSIVE ScanMin(_, _, _)
ScanMin(d, j, best) ==
    IF j > Len(d) THEN best
    ELSE ScanMin(d, j + 1, IF NLt(d[j], d[best]) THEN j ELSE best)

\* The slip of taking the last position holding the minimum.
idxmin_last(d) ==
    CHOOSE j \in 1..Len(d) : \A i \in 1..Len(d) : NLe(d[j], d[i]) /\ (i > j => NLt(d[j], d[i]))

idxmin(d) == ScanMin(d, 2, 1)

\* f"{y*100:.0f}%" for y in eighths: y*100 = 25*y/2, rounded half to even.
\* The label is <<n>>, standing for the text "n%".
FormatPct(y) ==
    LET v2 == 25 * y
        q == v2 \div 2
    IN  <<IF v2 % 2 = 0 THEN q ELSE IF q % 2 = 0 THEN q ELSE q + 1>>

\* (df["x"] - pt.x).abs().idxmin() on dense xs in 1/K units.
NearestRow(xs, pt, K) ==
    idxmin([r \in 1..Len(xs) |-> NAbs(NSub(xs[r], NMul(K, pt.x)))])

\* One pass of the loop of lines 111-114.
LabelStep(ls, xs, pt, K) ==
    [ls EXCEPT ![NearestRow(xs, pt, K)] = FormatPct(pt.y)]

PlaceLabel ==
    /\ pc = "labels"
    /\ k < Len(mids)
    /\ labels' = LabelStep(labels, xs_all, mids[k + 1], Scale(n_per_seg))
    /\ k' = k + 1
    /\ pc' = IF k + 1 = Len(mids) THEN "write" ELSE "labels"
    /\ UNCHANGED <<mids, n_per_seg, beziers, idx, xs_all, ys_all, cols, sheet>>

\* ---------------------------------------------------------------- main: output

\* out_df: columns x, y, the five bands, labels; one row per dense sample.
OutRows(xs, ys, cs, ls) ==
    [r \in 1..Len(xs) |->
       [x |-> xs[r], y |-> ys[r],
        band |-> [b \in 1..Len(cs) |-> cs[b][r]],
        labels |-> ls[r]]]

WriteSheet ==
    /\ pc = "write"
    /\ sheet' = OutRows(xs_all, ys_all, cols, labels)
    /\ pc' = "done"
    /\ UNCHANGED <<mids, n_per_seg, beziers, idx, xs_all, ys_all, cols, labels, k>>

Next ==
    \/ \E p \in PointInputs : ReadPoint(p)
    \/ BadPointLine
    \/ SortMids
    \/ \E d \in DensityInputs : ReadDensity(d)
    \/ BadDensityLine
    \/ BuildBeziers
    \/ SampleSegment
    \/ AddBandColumn
    \/ PlaceLabel
    \/ WriteSheet

Spec == Init /\ [][Next]_vars

\* ---------------------------------------------------------------- whole runs

\* The loop of lines 87-92 from segment i on, appended to what is there.
RECURSIVE SampleFrom(_, _, _, _)
SampleFrom(segs, i, n_pts, acc) ==
    IF i >= Len(segs) THEN acc
    ELSE LET s == SegmentSamples(segs, i, n_pts)
         IN  SampleFrom(segs, i + 1, n_pts, [xs |-> acc.xs \o s.xs, ys |-> acc.ys \o s.ys])

\* The loop of lines 111-114 from point j on.
RECURSIVE LabelFrom(_, _, _, _, _)
LabelFrom(ls, xs, points, j, K) ==
    IF j > Len(points) THEN ls
    ELSE LabelFrom(LabelStep(ls, xs, points[j], K), xs, points, j + 1, K)

\* The rows main writes when the user enters `entered` (in that order) and
\* then the accepted density n_pts.
RunRows(entered, n_pts) ==
    LET sorted == SortByX(entered)
        dense == SampleFrom(catmull_rom_to_bezier(sorted), 0, n_pts, [xs |-> <<>>, ys |-> <<>>])
        K == Scale(n_pts)
        cs == [i \in 1..Len(bands) |-> BandColumn(i, dense.xs, dense.ys, K)]
        ls == LabelFrom([r \in 1..Len(dense.xs) |-> NoLabel], dense.xs, sorted, 1, K)
    IN  OutRows(dense.xs, dense.ys, cs, ls)

\* ---------------------------------------------------------------- vocabulary of the claims

Rows == 1..Len(xs_all)
CurveDone == pc \in {"bands", "labels", "write", "done"}
BandsDone == pc \in {"labels", "write", "done"}
LabelsDone == pc \in {"write", "done"}
DenseUnit == Scale(n_per_seg)

StrictlyAscending(points) ==
    \A j \in 1..(Len(points) - 1) : NLt(points[j].x, points[j + 1].x)

HasDuplicateX(points) ==
    \E i, j \in 1..Len(points) : i # j /\ points[i].x = points[j].x

NonDecreasing(xs) ==
    \A r \in 1..(Len(xs) - 1) : NLe(xs[r], xs[r + 1])

\* Width of segment j of `points`; segments 0 and Len(points) are the mirrored ones.
Width(points, j) ==
    LET n == Len(points)
        jj == IF j = 0 THEN 1 ELSE IF j = n THEN n - 1 ELSE j
    IN  NSub(points[jj + 1].x, points[jj].x)

\* Every segment is at least a quarter of the sum of its two neighbours' widths.
WellSpaced(points) ==
    \A j \in 1..(Len(points) - 1) :
        NLe(NAdd(Width(points, j - 1), Width(points, j + 1)), NMul(4, Width(points, j)))

\* The interval rule of the band at position i, on a dense x.
InBand(i, x) ==
    /\ NLe(NMul(DenseUnit, bands[i].lo), x)
    /\ IF i = Len(bands)
       THEN NLe(x, NMul(DenseUnit, bands[i].hi))
       ELSE NLt(x, NMul(DenseUnit, bands[i].hi))

Filled(r) == {i \in 1..Len(cols) : cols[i][r] # NaN}

\* ---------------------------------------------------------------- claims

\* C1: for every dense sample and every band, the band's column holds the
\* sample's y exactly when the sample's x satisfies the band's interval rule
\* (lo <= x < hi, lo <= x <= hi for the last band) and is empty otherwise.
\* Stated as the claim has it, for runs on valid (strictly ascending) points;
\* the code's 1e-12 tolerance leaves a gap below every interior edge.
C1_ColumnsFollowIntervalRule ==
    BandsDone /\ StrictlyAscending(mids) =>
        \A i \in 1..Len(bands) : \A r \in Rows :
            cols[i][r] = IF InBand(i, xs_all[r]) THEN <<ys_all[r]>> ELSE NaN

\* C2 as stated: with strictly ascending control points the dense x-values
\* are non-decreasing in row order.
C2_AscendingPointsGiveMonotoneX ==
    (pc = "sample" \/ CurveDone) /\ StrictlyAscending(mids) => NonDecreasing(xs_all)

\* C2 amended: with strictly ascending control points in which every segment
\* is at least a quarter as wide as its two neighbouring segments together
\* (the mirrored segments at the two ends included), the dense x-values are
\* non-decreasing in row order.
C2_WellSpacedPointsGiveMonotoneX ==
    (pc = "sample" \/ CurveDone) /\ StrictlyAscending(mids) /\ WellSpaced(mids)
        => NonDecreasing(xs_all)

C2_Witness ==
    /\ pc = "done"
    /\ StrictlyAscending(mids)
    /\ WellSpaced(mids)
    /\ Len(xs_all) > NumPoints

\* C3: the dense sequence has exactly 1 + (n-1)*(s-1) rows: the first
\* segment contributes s samples and every later segment s-1.
C3_DenseLength ==
    /\ pc = "sample" =>
         /\ Len(xs_all) = IF idx = 0 THEN 0 ELSE n_per_seg + (idx - 1) * (n_per_seg - 1)
         /\ Len(ys_all) = Len(xs_all)
    /\ CurveDone =>
         /\ Len(xs_all) = 1 + (NumPoints - 1) * (n_per_seg - 1)
         /\ Len(ys_all) = Len(xs_all)
    /\ pc = "done" => Len(sheet) = 1 + (NumPoints - 1) * (n_per_seg - 1)

C3_Witness ==
    /\ pc = "done"
    /\ n_per_seg > 4
    /\ Len(sheet) = 1 + (NumPoints - 1) * (n_per_seg - 1)

\* C4 as stated: after a run exactly n rows carry a non-empty label.
C4_ExactlyNLabels ==
    LabelsDone => Cardinality({r \in Rows : labels[r] # NoLabel}) = Len(mids)

\* C5 as stated: when two entered control points share an x, nothing is
\* built: no segments, no dense samples, no worksheet.
C5_DuplicateXBuildsNothing ==
    Len(mids) = NumPoints /\ HasDuplicateX(mids)
        => beziers = <<>> /\ xs_all = <<>> /\ sheet = <<>>

\* C6: for every j in 0..n-1 the dense row at index j*(s-1) has exactly the
\* x and y of the j-th control point in x-ascending order.
C6_JoinRowsAreControlPoints ==
    CurveDone =>
        /\ \A j \in 1..(Len(mids) - 1) : NLe(mids[j].x, mids[j + 1].x)
        /\ \A j \in 0..(Len(mids) - 1) :
              LET r == j * (n_per_seg - 1) + 1
              IN  /\ xs_all[r] = NMul(DenseUnit, mids[j + 1].x)
                  /\ ys_all[r] = DenseUnit * mids[j + 1].y
                  /\ pc = "done" => /\ sheet[r].x = xs_all[r]
                                    /\ sheet[r].y = ys_all[r]

C6_Witness ==
    /\ pc = "done"
    /\ StrictlyAscending(mids)
    /\ sheet[Len(sheet)].x = NMul(DenseUnit, mids[NumPoints].x)
    /\ sheet[n_per_seg].y = DenseUnit * mids[2].y

\* C7: every row has at most one non-empty band column; a row whose x is
\* exactly an interior edge is in exactly one band; a row whose x is outside
\* every band has all band columns empty.
C7_AtMostOneBand ==
    BandsDone =>
        \A r \in Rows :
            /\ Cardinality(Filled(r)) <= 1
            /\ (\E i \in 1..(Len(bands) - 1) : xs_all[r] = NMul(DenseUnit, bands[i].hi))
                  => Cardinality(Filled(r)) = 1
            /\ (\A i \in 1..Len(bands) : ~InBand(i, xs_all[r])) => Filled(r) = {}

C7_Witness ==
    /\ pc = "done"
    /\ \E r \in Rows : xs_all[r] = NMul(DenseUnit, bands[2].hi) /\ Filled(r) = {3}
    /\ \E r \in Rows : NLt(NMul(DenseUnit, bands[Len(bands)].hi), xs_all[r])

\* C8: the sampler runs only with a density >= 4 and only after all control
\* points and an accepted density are in; a value below 4 produces no rows.
C8_SamplerOnlyWithAcceptedDensity ==
    /\ (pc = "sample" \/ CurveDone \/ beziers # <<>> \/ xs_all # <<>> \/ sheet # <<>>)
          => n_per_seg >= 4 /\ Len(mids) = NumPoints
    /\ n_per_seg < 4
          => /\ pc \in {"points", "sort", "density"}
             /\ beziers = <<>> /\ xs_all = <<>> /\ ys_all = <<>> /\ sheet = <<>>

C8_Witness ==
    /\ pc = "density"
    /\ n_per_seg \in 1..3
    /\ Len(mids) = NumPoints

\* The same points in one fixed order that does not depend on the order of
\* entry: ascending by x, then by y.
PtBefore(p, q) == NLt(p.x, q.x) \/ (p.x = q.x /\ p.y <= q.y)

RECURSIVE CanonicalOrder(_)
CanonicalOrder(s) ==
    IF s = <<>> THEN <<>>
    ELSE LET first == CHOOSE j \in 1..Len(s) : \A i \in 1..Len(s) : PtBefore(s[j], s[i])
         IN  <<s[first]>> \o
             CanonicalOrder([i \in 1..(Len(s) - 1) |-> IF i < first THEN s[i] ELSE s[i + 1]])

\* C9 as stated: the rows written do not depend on the order of entry: they
\* are the rows of the run in which the same points are entered in the
\* canonical order.
C9_RowsIndependentOfEntryOrder ==
    pc = "done" => sheet = RunRows(CanonicalOrder(mids), n_per_seg)

\* The distance of row r from control point j, and the row the claim names
\* for it: nearest in absolute distance, the earliest on ties.
Dist(r, j) == NAbs(NSub(xs_all[r], NMul(DenseUnit, mids[j].x)))

IsTarget(r, j) ==
    \A q \in Rows : /\ NLe(Dist(r, j), Dist(q, j))
                    /\ q < r => NLt(Dist(r, j), Dist(q, j))

\* The control points processed so far that resolve to row r.
Hits(r) == {j \in 1..(IF pc = "labels" THEN k ELSE Len(mids)) : IsTarget(r, j)}

Last(S) == CHOOSE j \in S : \A i \in S : i <= j

\* C10: each control point's label goes to the row nearest in x, the earliest
\* on ties, with the text of that point's own y; a row that several points
\* resolve to carries the label of the last one processed; and two points
\* resolve to the same row only when their x-values coincide (a distance
\* below any sampling resolution).
C10_LabelsOnNearestRows ==
    (pc = "labels" \/ LabelsDone) =>
        /\ \A r \in Rows :
              labels[r] = IF Hits(r) = {} THEN NoLabel
                          ELSE FormatPct(mids[Last(Hits(r))].y)
        /\ \A r \in Rows : \A i, j \in Hits(r) : mids[i].x = mids[j].x
        /\ pc = "done" => \A r \in Rows : sheet[r].labels = labels[r]

C10_Witness ==
    /\ pc = "done"
    /\ \E r \in Rows : \E i, j \in Hits(r) :
          /\ i < j
          /\ mids[i].y # mids[j].y
          /\ sheet[r].labels = FormatPct(mids[j].y)
          /\ sheet[r].labels # FormatPct(mids[i].y)
    /\ \E r \in Rows : Hits(r) # {} /\ \E q \in Rows : q > r /\ xs_all[q] = xs_all[r]

====
